---- MODULE Spec2Model ----
(***************************************************************************)
(* DetectManyShotJailbreak (validator/main.py): a validator that splits    *)
(* its input on newlines, classifies every line with a remote model and    *)
(* fails when the number of lines labelled LABEL_1 reaches a threshold.    *)
(*                                                                         *)
(* A string is a sequence of tokens.  Token NL is the newline character;   *)
(* a token k > 0 is a run of k characters none of which is a newline, so   *)
(* strings around the 14,500 / 15,000 character marks stay small.          *)
(***************************************************************************)
EXTENDS Integers, Sequences, FiniteSets, TLC

VARIABLES
    pc,           \* start, init_raised (__init__ raised), idle (constructed),
                  \* gather (validate awaits the tasks), returned, raised
    environ,      \* os.environ: the variables that are set
    args,         \* the arguments __init__ was called with
    self,         \* the attributes of the validator object
    exc,          \* the exception __init__ or validate ended with
    unawaited,    \* coroutine objects created and never awaited
    warmup,       \* requests the constructor sent to the endpoint
    value,        \* the argument of the current validate call
    lines,        \* value.split("\n")
    response,     \* what the endpoint answers for each line of this call
    started,      \* tasks of gather whose first step has run
    task_result,  \* per task: pending, a label, error, cancelled
    order,        \* the indices of the tasks in the order they completed
    results,      \* the list of booleans is_instruction returns
    requests,     \* the inputs of the text_classification calls of this call
    outcome       \* what validate returned

vars == <<pc, environ, args, self, exc, unawaited, warmup, value, lines, response,
          started, task_result, order, results, requests, outcome>>

----------------------------------------------------------------------------
(* Bounds of the model *)

\* Longest input, in tokens.
MaxTokens == 3

\* Lengths of the runs of non-newline characters an input is built from.
RunLens == {1, 501, 14499}

\* Thresholds the validator is constructed with (64 is the default).
Thresholds == {0, 1, 2, 64}

----------------------------------------------------------------------------
(* Program constants *)

\* value.split("\n"): the separator token.
NL == 0

\* len(value) >= 14500
LengthLimit == 14500

\* "... is over a max supported length of 15,000 characters."
DocumentedMaxLength == 15000

\* num_few_shot_examples: int = 64
DefaultFewShot == 64

\* AsyncInferenceClient(..., timeout=30)
ClientTimeout == 30

\* api_endpoint: str = None
None == "None"

ApiEndpoints == {None, "", "https://endpoint"}

ValueErrorNoEndpoint == "ValueError: API endpoint must be provided!"

KeyErrorNoToken == "KeyError: 'HF_API_KEY'"

RemoteError == "exception raised by client.text_classification"

JailbreakText ==
    "The input contains a many-shot jailbreak. Please ensure that the input is not a many-shot jailbreak."

LengthText ==
    "Prompt length of {len(value)} is over a max supported length of 15,000 characters."

JailbreakMessage == [text |-> JailbreakText]

\* f"Prompt length of {len(value)} is over a max supported length of 15,000 characters."
LengthMessage(n) == [text |-> LengthText, len |-> n]

PassResult == [outcome |-> "pass"]

FailResult(msg) == [outcome |-> "fail", error_message |-> msg]

NoResult == [outcome |-> "none"]

----------------------------------------------------------------------------
(* Strings *)

Alphabet == {NL} \cup RunLens

Values == UNION {[1..n -> Alphabet] : n \in 0..MaxTokens}

TokLen(t) == IF t = NL THEN 1 ELSE t

\* len(value)
RECURSIVE StrLen(_)
StrLen(v) == IF v = <<>> THEN 0 ELSE TokLen(Head(v)) + StrLen(Tail(v))

RECURSIVE SplitAcc(_, _, _)
SplitAcc(rest, cur, acc) ==
    IF rest = <<>> THEN Append(acc, cur)
    ELSE IF Head(rest) = NL
         THEN SplitAcc(Tail(rest), <<>>, Append(acc, cur))
         ELSE SplitAcc(Tail(rest), Append(cur, Head(rest)), acc)

\* A split that drops empty lines, as value.split() or splitlines() would.
split_skip_empty(v) ==
    LET NonEmpty(l) == l # <<>>
    IN SelectSeq(SplitAcc(v, <<>>, <<>>), NonEmpty)

\* value.split("\n")
split(v) == SplitAcc(v, <<>>, <<>>)

----------------------------------------------------------------------------
(* The pure parts of is_instruction, detect_many_shot_jailbreak, validate *)

Labels == {"LABEL_0", "LABEL_1"}

\* What one remote call ends with: a label, or an exception (an HTTP error,
\* the 30 s timeout).
Responses == Labels \cup {"error"}

convert_to_bool(result) == result = "LABEL_1"

\* Results handed back in the order the calls complete.
gather_as_completed(tr, ord) == [i \in 1..Len(tr) |-> tr[ord[i]]]

\* asyncio.gather(*tasks): the results in the order of the awaitables.
gather(tr, ord) == [i \in 1..Len(tr) |-> tr[i]]

\* gather(..., return_exceptions=True) never raises.
gather_returns_exceptions(tr) == FALSE

\* asyncio.gather without return_exceptions: the first exception of a task
\* is raised to the awaiting caller.
gather_raises(tr) == \E i \in 1..Len(tr) : tr[i] = "error"

\* sum(int(result) for result in results)
RECURSIVE num_instructions(_)
num_instructions(rs) ==
    IF rs = <<>> THEN 0
    ELSE (IF Head(rs) THEN 1 ELSE 0) + num_instructions(Tail(rs))

detect_strictly_more(rs, threshold) == num_instructions(rs) > threshold

\* if num_instructions >= self.num_few_shot_examples: return True
detect_many_shot_jailbreak(rs, threshold) == num_instructions(rs) >= threshold

\* if len(value) >= 14500
too_long(v) == StrLen(v) >= LengthLimit

validate_result_inverted(contains) ==
    IF ~contains THEN FailResult(JailbreakMessage) ELSE PassResult

\* if contains_many_shot_jailbreak is not None and contains_many_shot_jailbreak
validate_result(contains) ==
    IF contains THEN FailResult(JailbreakMessage) ELSE PassResult

endpoint_is_none(ep) == ep = None

\* if not api_endpoint
endpoint_missing(ep) == ep \in {None, ""}

----------------------------------------------------------------------------
(* State machine *)

NoArgs == [num_few_shot_examples |-> DefaultFewShot, api_endpoint |-> None]

NoSelf == [constructed |-> FALSE]

Init ==
    /\ pc = "start"
    /\ environ \in {{}, {"HF_API_KEY"}}
    /\ args = NoArgs
    /\ self = NoSelf
    /\ exc = "none"
    /\ unawaited = 0
    /\ warmup = <<>>
    /\ value = <<>>
    /\ lines = <<>>
    /\ response = <<>>
    /\ started = 0
    /\ task_result = <<>>
    /\ order = <<>>
    /\ results = <<>>
    /\ requests = <<>>
    /\ outcome = NoResult

\* DetectManyShotJailbreak(num_few_shot_examples=n, api_endpoint=ep)
Construct(n, ep) ==
    /\ pc = "start"
    /\ args' = [num_few_shot_examples |-> n, api_endpoint |-> ep]
    /\ IF endpoint_missing(ep)
       THEN /\ self' = [constructed |-> FALSE, num_few_shot_examples |-> n]
            /\ exc' = ValueErrorNoEndpoint
            /\ pc' = "init_raised"
            /\ UNCHANGED unawaited
       ELSE IF "HF_API_KEY" \notin environ
       THEN /\ self' = [constructed |-> FALSE, num_few_shot_examples |-> n]
            /\ exc' = KeyErrorNoToken
            /\ pc' = "init_raised"
            /\ UNCHANGED unawaited
       ELSE /\ self' = [constructed |-> TRUE, num_few_shot_examples |-> n,
                        classification_client |->
                            [model |-> ep, timeout |-> ClientTimeout]]
            \* text_classification(input) builds a coroutine that is never
            \* awaited: nothing is sent.
            /\ unawaited' = unawaited + 1
            /\ pc' = "idle"
            /\ UNCHANGED exc
    /\ UNCHANGED <<environ, warmup, value, lines, response, started,
                   task_result, order, results, requests, outcome>>

\* validate with the length check placed after the detection: an over-long
\* input is split and classified before it is rejected for its length.
ValidateCallCheckLast(v) ==
    /\ pc = "idle"
    /\ value' = v
    /\ exc' = "none"
    /\ order' = <<>>
    /\ results' = <<>>
    /\ lines' = split(v)
    /\ IF too_long(v)
       THEN /\ response' \in [1..Len(split(v)) -> Labels]
            /\ task_result' = response'
            /\ started' = Len(split(v))
            /\ requests' = split(v)
            /\ outcome' = FailResult(LengthMessage(StrLen(v)))
            /\ pc' = "returned"
       ELSE /\ response' \in [1..Len(split(v)) -> Responses]
            /\ task_result' = [i \in 1..Len(split(v)) |-> "pending"]
            /\ started' = 0
            /\ requests' = <<>>
            /\ outcome' = NoResult
            /\ pc' = "gather"
    /\ UNCHANGED <<environ, args, self, unawaited, warmup>>

\* validate(value) up to the await of gather: the length check, the split,
\* one coroutine per line.  response is what the remote model will answer
\* for each line of this call.
ValidateCall(v) ==
    /\ pc = "idle"
    /\ value' = v
    /\ exc' = "none"
    /\ order' = <<>>
    /\ results' = <<>>
    /\ started' = 0
    /\ requests' = <<>>
    /\ IF too_long(v)
       THEN /\ lines' = <<>>
            /\ response' = <<>>
            /\ task_result' = <<>>
            /\ outcome' = FailResult(LengthMessage(StrLen(v)))
            /\ pc' = "returned"
       ELSE /\ lines' = split(v)
            /\ response' \in [1..Len(split(v)) -> Responses]
            /\ task_result' = [i \in 1..Len(split(v)) |-> "pending"]
            /\ outcome' = NoResult
            /\ pc' = "gather"
    /\ UNCHANGED <<environ, args, self, unawaited, warmup>>

\* The event loop runs the first step of the next task of gather, in the
\* order of the awaitables: client.text_classification(input) sends the line.
StartTask ==
    /\ pc = "gather"
    /\ started < Len(lines)
    /\ started' = started + 1
    /\ requests' = Append(requests, lines[started + 1])
    /\ UNCHANGED <<pc, environ, args, self, exc, unawaited, warmup, value,
                   lines, response, task_result, order, results, outcome>>

\* The remote call of line i completes, with a label or an exception.  The
\* loop polls for completions only after every ready first step has run.
CompleteTask(i) ==
    /\ pc = "gather"
    /\ started = Len(lines)
    /\ i \in 1..Len(lines)
    /\ task_result[i] = "pending"
    /\ task_result' = [task_result EXCEPT ![i] = response[i]]
    /\ order' = Append(order, i)
    /\ UNCHANGED <<pc, environ, args, self, exc, unawaited, warmup, value,
                   lines, response, started, results, requests, outcome>>

\* A task raised: gather raises it into is_instruction, and it leaves
\* detect_many_shot_jailbreak, asyncio.run (which cancels the tasks still
\* pending) and validate.
GatherRaise ==
    /\ pc = "gather"
    /\ gather_raises(task_result)
    /\ task_result' = [i \in 1..Len(task_result) |->
                          IF task_result[i] = "pending" THEN "cancelled"
                          ELSE task_result[i]]
    /\ exc' = RemoteError
    /\ pc' = "raised"
    /\ UNCHANGED <<environ, args, self, unawaited, warmup, value, lines,
                   response, started, order, results, requests, outcome>>

\* Every task is done: gather returns, the results are converted and
\* counted, validate returns its result.
GatherReturn ==
    /\ pc = "gather"
    /\ started = Len(lines)
    /\ \A i \in 1..Len(lines) : task_result[i] # "pending"
    /\ ~gather_raises(task_result)
    /\ LET got == gather(task_result, order)
           rs == [i \in 1..Len(got) |-> convert_to_bool(got[i])]
       IN /\ results' = rs
          /\ outcome' = validate_result(
                 detect_many_shot_jailbreak(rs, self.num_few_shot_examples))
    /\ pc' = "returned"
    /\ UNCHANGED <<environ, args, self, exc, unawaited, warmup, value,
                   lines, response, started, task_result, order, requests>>

\* validate has returned or raised: its frame and the event loop of
\* asyncio.run are gone, the validator object is ready for the next call.
Finish ==
    /\ pc \in {"returned", "raised"}
    /\ pc' = "idle"
    /\ exc' = "none"
    /\ value' = <<>>
    /\ lines' = <<>>
    /\ response' = <<>>
    /\ started' = 0
    /\ task_result' = <<>>
    /\ order' = <<>>
    /\ results' = <<>>
    /\ requests' = <<>>
    /\ outcome' = NoResult
    /\ UNCHANGED <<environ, args, self, unawaited, warmup>>

Next ==
    \/ \E n \in Thresholds, ep \in ApiEndpoints : Construct(n, ep)
    \/ \E v \in Values : ValidateCall(v)
    \/ StartTask
    \/ \E i \in 1..Len(lines) : CompleteTask(i)
    \/ GatherRaise
    \/ GatherReturn
    \/ Finish

Spec == Init /\ [][Next]_vars

----------------------------------------------------------------------------
(* Vocabulary of the properties, stated without the operators above *)

\* Number of newline characters of a string.
NewlineCount(v) == Cardinality({i \in 1..Len(v) : v[i] = NL})

\* "\n".join(ls)
RECURSIVE Join(_)
Join(ls) ==
    IF ls = <<>> THEN <<>>
    ELSE IF Len(ls) = 1 THEN ls[1]
    ELSE ls[1] \o <<NL>> \o Join(Tail(ls))

\* Number of lines the classifier labels as instructions.
LabelCount(resp) == Cardinality({i \in 1..Len(resp) : resp[i] = "LABEL_1"})

Returned == pc = "returned"

IsFail == outcome.outcome = "fail"

IsLengthFail == IsFail /\ outcome.error_message.text = LengthText

IsJailbreakFail == IsFail /\ outcome.error_message.text = JailbreakText

Threshold == self.num_few_shot_examples

----------------------------------------------------------------------------
(* Properties *)

C2_OneRequestPerLine ==
    /\ \A k \in 1..Len(requests) :
           \A j \in 1..Len(requests[k]) : requests[k][j] # NL
    /\ pc = "gather" => Len(requests) <= NewlineCount(value) + 1
    /\ (pc \in {"returned", "raised"} /\ ~too_long(value)) =>
           /\ Len(requests) = NewlineCount(value) + 1
           /\ Join(requests) = value

\* An input with an empty line has been validated.
C2_Witness ==
    /\ Returned
    /\ Len(requests) = 3
    /\ requests[2] = <<>>
    /\ requests[3] # <<>>

\* C3: when validate rejects an input for its length no classification
\* request has been issued for it and no task was started, and the fail
\* result carries the length message, not the jailbreak message.
C3_LengthCheckBeforeRemote ==
    /\ (Returned /\ too_long(value)) =>
           /\ outcome = FailResult(LengthMessage(StrLen(value)))
           /\ ~IsJailbreakFail
    /\ (Returned /\ IsLengthFail) =>
           /\ requests = <<>>
           /\ started = 0
           /\ lines = <<>>

\* An over-long input of several lines has been rejected.
C3_Witness ==
    /\ Returned
    /\ IsLengthFail
    /\ NewlineCount(value) >= 1
    /\ Threshold = 1

\* C4 as claimed: validate never ends by raising.
C4_ValidateNeverRaises == pc # "raised"

\* C4 as amended: validate returns a pass or a fail result carrying a message
\* exactly when every per-line remote call returned a label (or the input
\* was rejected for its length); it ends by raising exactly when the input
\* passed the length check and a remote call raised.
C4_RaisesIffRemoteCallRaises ==
    /\ pc = "raised" =>
           /\ ~too_long(value)
           /\ \E i \in 1..Len(response) :
                  response[i] = "error" /\ task_result[i] = "error"
           /\ exc = RemoteError
           /\ outcome = NoResult
    /\ Returned =>
           /\ \A i \in 1..Len(response) : response[i] \in Labels
           /\ \/ outcome = PassResult
              \/ IsLengthFail
              \/ IsJailbreakFail

\* A remote call raised and validate ended by raising.
C4_Witness ==
    /\ pc = "raised"
    /\ Len(response) = 2
    /\ response[1] = "LABEL_1"
    /\ response[2] = "error"

\* C5 as claimed: validate rejects an input for its length exactly when the
\* input is longer than 15,000 characters.
C5_RejectsIffOverDocumentedMax ==
    Returned => (IsLengthFail <=> StrLen(value) > DocumentedMaxLength)

C8_VerdictIndependentOfCompletionOrder ==
    (Returned /\ ~too_long(value)) =>
        /\ results = [i \in 1..Len(response) |-> response[i] = "LABEL_1"]
        /\ num_instructions(results) = LabelCount(response)
        /\ outcome = IF LabelCount(response) >= Threshold
                     THEN FailResult(JailbreakMessage)
                     ELSE PassResult

\* The calls completed out of order, with different labels.
C8_Witness ==
    /\ Returned
    /\ Len(order) >= 2
    /\ order[1] # 1
    /\ response[order[1]] # response[1]

\* C9 as claimed: after a successful construction one warm-up request has
\* been sent to the endpoint.
C9_WarmupRequestSent == pc = "idle" => Len(warmup) = 1

====
